---------------------------- MODULE Spec2Model ----------------------------
(***************************************************************************)
(* lem-in: route finding, disjoint route selection, agent allocation and   *)
(* turn scheduling, as implemented by the two programs of the repository:  *)
(*   "main"    : src/main.go                                               *)
(*   "part000" : src/unnamed/part_000                                      *)
(* The two programs share the route finder and the route selector and      *)
(* differ in the loader, the allocator and the turn scheduler.             *)
(*                                                                         *)
(* An input file is a sequence of already tokenised lines (blank lines and *)
(* single-# comments, which both loaders skip, are left out):              *)
(*   [kind |-> "ants",   x |-> n]             a bare number                *)
(*   [kind |-> "cmd",    a |-> "##start"]     a ## command                 *)
(*   [kind |-> "room",   a |-> name, x, y]    "name x y"                   *)
(*   [kind |-> "tunnel", a |-> r1, b |-> r2]  "r1-r2"                      *)
(***************************************************************************)
EXTENDS Integers, Sequences, FiniteSets, TLC

(***************************************************************************)
(* Bounds of the model.                                                    *)
(***************************************************************************)
MaxTunnels == 3
MaxAnts == 2
MaxSimpleTunnels == 4
MaxSimpleAnts == 6
MaxRoutes == 3

(***************************************************************************)
(* Values.                                                                 *)
(***************************************************************************)
Progs == {"main", "part000"}

\* Go's nil slice of paths / nil path.
Nil == <<>>

\* The outcome of a nil-pointer dereference (f.Rooms[name].Links for a name
\* that is no key of f.Rooms): the run-time panic that ends the program.
\* It is told apart from every result it is compared with by its shape: a
\* path has two rooms or more (or is Nil), and a list of paths has paths,
\* not names, as elements.  (Nor is its element a name a link list can
\* hold: a line with a space in it is a room line, never a tunnel.)
Panic == <<"nil pointer dereference">>

NoFarm == [Ants |-> 0, Rooms |-> [n \in {} |-> 0], Start |-> "", End |-> ""]

Line(kind, a, b, x, y) == [kind |-> kind, a |-> a, b |-> b, x |-> x, y |-> y]

AntsLine(n) == Line("ants", "", "", n, 0)

CmdLine(c) == Line("cmd", c, "", 0, 0)

RoomLine(name, x, y) == Line("room", name, "", x, y)

TunnelLine(a, b) == Line("tunnel", a, b, 0, 0)

(***************************************************************************)
(* Small helpers over sequences and maps.                                  *)
(***************************************************************************)
Range(s) == {s[i] : i \in DOMAIN s}

Last(s) == s[Len(s)]

Swap(s, i, j) == [s EXCEPT ![i] = s[j], ![j] = s[i]]

\* m[k] = v for a Go map m (a new key is added, an old one overwritten).
MapPut(m, k, v) == [n \in (DOMAIN m) \cup {k} |-> IF n = k THEN v ELSE m[n]]

Max(a, b) == IF a >= b THEN a ELSE b

RECURSIVE SumSeq(_)
SumSeq(s) == IF s = <<>> THEN 0 ELSE Head(s) + SumSeq(Tail(s))

(***************************************************************************)
(* The loader.                                                             *)
(***************************************************************************)
NewRoom(name, x, y) == [Name |-> name, X |-> x, Y |-> y, Links |-> <<>>]

AddLink(rooms, a, b) == [rooms EXCEPT ![a].Links = Append(@, b)]

\* The loader's local state while it scans the file.
ParseInit ==
    [ farm |-> NoFarm, lastCmd |-> "", lineCount |-> 0, startSet |-> FALSE,
      endSet |-> FALSE, coords |-> {}, err |-> FALSE ]

Fail(st) == [st EXCEPT !.err = TRUE]

\* One iteration of the scanner loop of src/main.go.
ParseLineMain(st, line) ==
    IF st.lineCount = 0 THEN
        IF line.kind # "ants" \/ line.x <= 0 THEN Fail(st)
        ELSE [st EXCEPT !.farm.Ants = line.x, !.lineCount = 1]
    ELSE IF line.kind = "cmd" THEN [st EXCEPT !.lastCmd = line.a]
    ELSE IF line.kind = "room" THEN
        LET rooms == MapPut(st.farm.Rooms, line.a, NewRoom(line.a, line.x, line.y))
            s1 == [st EXCEPT !.farm.Rooms = rooms]
            s2 == IF st.lastCmd = "##start" THEN [s1 EXCEPT !.farm.Start = line.a] ELSE s1
            s3 == IF st.lastCmd = "##end" THEN [s2 EXCEPT !.farm.End = line.a] ELSE s2
        IN  [s3 EXCEPT !.lastCmd = ""]
    ELSE IF line.kind = "tunnel" THEN
        LET r0 == st.farm.Rooms
            r1 == IF line.a \in DOMAIN r0 THEN AddLink(r0, line.a, line.b) ELSE r0
            r2 == IF line.b \in DOMAIN r1 THEN AddLink(r1, line.b, line.a) ELSE r1
        IN  [st EXCEPT !.farm.Rooms = r2]
    ELSE st

\* One iteration of the scanner loop of src/unnamed/part_000.
ParseLinePart(st, line) ==
    IF st.lineCount = 0 THEN
        IF line.kind # "ants" \/ line.x <= 0 THEN Fail(st)
        ELSE [st EXCEPT !.farm.Ants = line.x, !.lineCount = 1]
    ELSE IF line.kind = "cmd" THEN [st EXCEPT !.lastCmd = line.a]
    ELSE IF line.kind = "room" THEN
        IF line.a \in DOMAIN st.farm.Rooms THEN Fail(st)
        ELSE IF <<line.x, line.y>> \in st.coords THEN Fail(st)
        ELSE IF st.lastCmd = "##start" /\ st.startSet THEN Fail(st)
        ELSE IF st.lastCmd = "##end" /\ st.endSet THEN Fail(st)
        ELSE
            LET rooms == MapPut(st.farm.Rooms, line.a, NewRoom(line.a, line.x, line.y))
                s1 == [st EXCEPT !.farm.Rooms = rooms, !.coords = @ \cup {<<line.x, line.y>>}]
                s2 == IF st.lastCmd = "##start"
                      THEN [s1 EXCEPT !.farm.Start = line.a, !.startSet = TRUE] ELSE s1
                s3 == IF st.lastCmd = "##end"
                      THEN [s2 EXCEPT !.farm.End = line.a, !.endSet = TRUE] ELSE s2
            IN  [s3 EXCEPT !.lastCmd = ""]
    ELSE IF line.kind = "tunnel" THEN
        IF line.a \notin DOMAIN st.farm.Rooms \/ line.b \notin DOMAIN st.farm.Rooms
        THEN Fail(st)
        ELSE [st EXCEPT !.farm.Rooms = AddLink(AddLink(@, line.a, line.b), line.b, line.a)]
    ELSE Fail(st)

RECURSIVE ParseLines(_, _, _)
ParseLines(p, st, lines) ==
    IF st.err \/ lines = <<>> THEN st
    ELSE ParseLines(p,
                    IF p = "main" THEN ParseLineMain(st, Head(lines))
                    ELSE ParseLinePart(st, Head(lines)),
                    Tail(lines))

\* parseInput of program p on a file: [err, farm]; farm is meaningful only
\* when err is FALSE.
parseInput(p, lines) ==
    LET st == ParseLines(p, ParseInit, lines)
    IN  IF st.err THEN [err |-> TRUE, farm |-> NoFarm]
        ELSE IF st.farm.Start = "" \/ st.farm.End = "" THEN [err |-> TRUE, farm |-> NoFarm]
        ELSE [err |-> FALSE, farm |-> st.farm]

(***************************************************************************)
(* The path finder.                                                        *)
(***************************************************************************)
Links(f, name) == f.Rooms[name].Links

\* The inner loop of the search: the links of the room just dequeued, in
\* declaration order; each one neither visited nor blocked is marked visited
\* and its extended path is put at the back of the queue.
RECURSIVE Expand(_, _, _, _, _, _)
Expand(links, i, path, queue, visited, blocked) ==
    IF i > Len(links) THEN [queue |-> queue, visited |-> visited]
    ELSE LET next == links[i] IN
         IF next \notin visited /\ next \notin blocked
         THEN Expand(links, i + 1, path, Append(queue, Append(path, next)),
                     visited \cup {next}, blocked)
         ELSE Expand(links, i + 1, path, queue, visited, blocked)

\* The outer loop of the search: dequeue a path; it is the result when it
\* ends at f.End; otherwise expand its last room.
RECURSIVE BfsLoop(_, _, _, _)
BfsLoop(f, queue, visited, blocked) ==
    IF queue = <<>> THEN Nil
    ELSE LET path == Head(queue)
             last == Last(path)
         IN  IF last = f.End THEN path
             ELSE IF last \notin DOMAIN f.Rooms THEN Panic
             ELSE LET e == Expand(Links(f, last), 1, path, Tail(queue), visited, blocked)
                  IN  BfsLoop(f, e.queue, e.visited, blocked)

bfsShortestPath(f, startNeighbor, blockedRooms) ==
    BfsLoop(f, << <<f.Start, startNeighbor>> >>, {f.Start, startNeighbor}, blockedRooms)


(***************************************************************************)
(* The exchange sort both selectors use: for i, for j > i, swap s[i] and   *)
(* s[j] when the key of s[j] is strictly smaller.  key maps each element   *)
(* of s to its sort key.  Indices are 1-based here.                        *)
(***************************************************************************)
RECURSIVE SortLoop(_, _, _, _)
SortLoop(s, i, j, key) ==
    IF i > Len(s) - 1 THEN s
    ELSE IF j > Len(s) THEN SortLoop(s, i + 1, i + 2, key)
    ELSE SortLoop(IF key[s[j]] < key[s[i]] THEN Swap(s, i, j) ELSE s, i, j + 1, key)

\* The rooms of a path except its first and its last.
Intermediate(path) == {path[i] : i \in 2..(Len(path) - 1)}

(***************************************************************************)
(* The disjoint path selector.                                             *)
(***************************************************************************)
\* The comparison of the sort dereferences f.Rooms[neighbor] for a neighbor
\* that is no declared room; it runs only for two or more neighbors, and
\* then for every one of them.
SortDereferencesNil(f) ==
    LET neighbors == Links(f, f.Start)
    IN  Len(neighbors) >= 2 /\ ~(Range(neighbors) \subseteq DOMAIN f.Rooms)

\* neighbors of start ordered by their number of links.
SortedNeighbors(f) ==
    LET neighbors == Links(f, f.Start)
    IN  IF SortDereferencesNil(f) THEN Panic
        ELSE IF Len(neighbors) < 2 THEN neighbors
        ELSE SortLoop(neighbors, 1, 2, [n \in Range(neighbors) |-> Len(Links(f, n))])

\* NonOverlapLoop that gives up at the first neighbor without a route.
RECURSIVE NonOverlapLoopStopsAtMiss(_, _, _, _, _)
NonOverlapLoopStopsAtMiss(f, neighbors, i, selectedPaths, blockedRooms) ==
    IF i > Len(neighbors) THEN selectedPaths
    ELSE LET path == bfsShortestPath(f, neighbors[i], blockedRooms) IN
         IF path = Panic THEN Panic
         ELSE IF path # Nil
         THEN NonOverlapLoopStopsAtMiss(f, neighbors, i + 1, Append(selectedPaths, path),
                                        blockedRooms \cup Intermediate(path))
         ELSE selectedPaths

\* The loop over the sorted neighbors.
RECURSIVE NonOverlapLoop(_, _, _, _, _)
NonOverlapLoop(f, neighbors, i, selectedPaths, blockedRooms) ==
    IF i > Len(neighbors) THEN selectedPaths
    ELSE LET path == bfsShortestPath(f, neighbors[i], blockedRooms) IN
         IF path = Panic THEN Panic
         ELSE IF path # Nil
         THEN NonOverlapLoop(f, neighbors, i + 1, Append(selectedPaths, path),
                             blockedRooms \cup Intermediate(path))
         ELSE NonOverlapLoop(f, neighbors, i + 1, selectedPaths, blockedRooms)

findNonOverlappingPaths(f) ==
    IF SortDereferencesNil(f) THEN Panic
    ELSE NonOverlapLoop(f, SortedNeighbors(f), 1, Nil, {})

\* The loop over start's links in declaration order; the search inside it
\* is the same queue loop as bfsShortestPath with nothing blocked.
RECURSIVE AllShortestLoop(_, _, _, _)
AllShortestLoop(f, links, i, allPaths) ==
    IF i > Len(links) THEN allPaths
    ELSE LET shortestPath == BfsLoop(f, << <<f.Start, links[i]>> >>, {f.Start, links[i]}, {}) IN
         IF shortestPath = Panic THEN Panic
         ELSE IF shortestPath # Nil
         THEN AllShortestLoop(f, links, i + 1, Append(allPaths, shortestPath))
         ELSE AllShortestLoop(f, links, i + 1, allPaths)

findAllShortestPaths(f) == AllShortestLoop(f, Links(f, f.Start), 1, Nil)

pathsShareRooms(path1, path2) == Intermediate(path1) \cap Intermediate(path2) # {}

\* The loop over the sorted candidates: a candidate is selected when it
\* shares no intermediate room with any path selected before it.
RECURSIVE SelectLoop(_, _, _)
SelectLoop(allPaths, i, selected) ==
    IF i > Len(allPaths) THEN selected
    ELSE LET path == allPaths[i]
             conflict == \E k \in DOMAIN selected : pathsShareRooms(path, selected[k])
         IN  SelectLoop(allPaths, i + 1, IF conflict THEN selected ELSE Append(selected, path))

\* selectBestPaths sorts its argument in place (the caller's slice shares
\* the array) and returns the selection: [sorted, selected].
selectBestPaths(allPaths) ==
    IF Len(allPaths) = 0 THEN [sorted |-> allPaths, selected |-> Nil]
    ELSE LET sorted == SortLoop(allPaths, 1, 2, [p \in Range(allPaths) |-> Len(p)])
         IN  [sorted |-> sorted, selected |-> SelectLoop(sorted, 1, Nil)]

\* main's choice of the route set handed to the simulation.
chooseFinalPaths(nonOverlapPaths, bestPaths) ==
    IF Len(nonOverlapPaths) > Len(bestPaths) THEN nonOverlapPaths ELSE bestPaths

\* The test left out: main goes on to the simulation whatever it found.
noValidPathsNeverTested(paths) == FALSE

\* main's test for "No valid paths found!".
noValidPaths(paths) == Len(paths) = 0

(***************************************************************************)
(* The agent allocator.                                                    *)
(***************************************************************************)
\* BestRoute with the score of a route being its length alone.
RECURSIVE BestRouteByLengthOnly(_, _, _, _, _)
BestRouteByLengthOnly(lengths, assigned, i, best, bestScore) ==
    IF i > Len(lengths) THEN best
    ELSE LET score == lengths[i] IN
         IF score < bestScore THEN BestRouteByLengthOnly(lengths, assigned, i + 1, i, score)
         ELSE BestRouteByLengthOnly(lengths, assigned, i + 1, best, bestScore)

\* The scan for the best route: best starts at route 0 (index 1 here) and
\* moves to route i when its score is strictly smaller.
RECURSIVE BestRoute(_, _, _, _, _)
BestRoute(lengths, assigned, i, best, bestScore) ==
    IF i > Len(lengths) THEN best
    ELSE LET score == lengths[i] + assigned[i] IN
         IF score < bestScore THEN BestRoute(lengths, assigned, i + 1, i, score)
         ELSE BestRoute(lengths, assigned, i + 1, best, bestScore)

pathLengths(paths) == [i \in DOMAIN paths |-> Len(paths[i]) - 1]

\* AllocLoopMain without antsAssigned[best]++.
RECURSIVE AllocLoopMainNoCount(_, _, _, _, _)
AllocLoopMainNoCount(lengths, ants, a, antPaths, antsAssigned) ==
    IF a > ants THEN [antPaths |-> antPaths, antsAssigned |-> antsAssigned]
    ELSE LET best == BestRoute(lengths, antsAssigned, 1, 1, lengths[1] + antsAssigned[1])
         IN  AllocLoopMainNoCount(lengths, ants, a + 1, Append(antPaths, best), antsAssigned)

\* The allocation loop of simulateAnts in src/main.go: [antPaths, antsAssigned];
\* antPaths[a] is the route (1-based) of ant a (1-based position, id a).
RECURSIVE AllocLoopMain(_, _, _, _, _)
AllocLoopMain(lengths, ants, a, antPaths, antsAssigned) ==
    IF a > ants THEN [antPaths |-> antPaths, antsAssigned |-> antsAssigned]
    ELSE LET best == BestRoute(lengths, antsAssigned, 1, 1, lengths[1] + antsAssigned[1])
         IN  AllocLoopMain(lengths, ants, a + 1, Append(antPaths, best),
                           [antsAssigned EXCEPT ![best] = @ + 1])

allocateMain(ants, paths) ==
    AllocLoopMain(pathLengths(paths), ants, 1, <<>>, [i \in DOMAIN paths |-> 0])

\* The scan for the best route that moves on to a route of equal score.
RECURSIVE BestRouteTakesLast(_, _, _, _, _)
BestRouteTakesLast(lengths, assigned, i, best, bestScore) ==
    IF i > Len(lengths) THEN best
    ELSE LET score == lengths[i] + assigned[i] IN
         IF score <= bestScore THEN BestRouteTakesLast(lengths, assigned, i + 1, i, score)
         ELSE BestRouteTakesLast(lengths, assigned, i + 1, best, bestScore)

\* DistributeLoop whose scan tests score <= bestScore.
RECURSIVE DistributeLoopTakesLast(_, _, _, _, _)
DistributeLoopTakesLast(lengths, ants, a, distribution, assigned) ==
    IF a > ants THEN distribution
    ELSE LET best == BestRouteTakesLast(lengths, assigned, 2, 1, lengths[1] + assigned[1])
         IN  DistributeLoopTakesLast(lengths, ants, a + 1,
                                     [distribution EXCEPT ![best] = Append(@, a)],
                                     [assigned EXCEPT ![best] = @ + 1])

\* distributeAnts of src/unnamed/part_000: distribution[i] is the list of
\* ant ids of route i.  The scan starts at route 1 (index 2 here).
RECURSIVE DistributeLoop(_, _, _, _, _)
DistributeLoop(lengths, ants, a, distribution, assigned) ==
    IF a > ants THEN distribution
    ELSE LET best == BestRoute(lengths, assigned, 2, 1, lengths[1] + assigned[1])
         IN  DistributeLoop(lengths, ants, a + 1,
                            [distribution EXCEPT ![best] = Append(@, a)],
                            [assigned EXCEPT ![best] = @ + 1])

distributeAnts(ants, paths) ==
    DistributeLoop(pathLengths(paths), ants, 1, [i \in DOMAIN paths |-> <<>>],
                   [i \in DOMAIN paths |-> 0])

(***************************************************************************)
(* The turn scheduler.                                                     *)
(***************************************************************************)
Move(ant, room) == [ant |-> ant, room |-> room]

\* TurnLoopMain with antsFinished counted for every move, not only for a
\* move into end.
RECURSIVE TurnLoopMainCountsEveryMove(_, _, _, _, _, _, _, _)
TurnLoopMainCountsEveryMove(end, paths, antPaths, ant, positions, moves, occupied, finished) ==
    IF ant > Len(positions)
    THEN [positions |-> positions, moves |-> moves, antsFinished |-> finished]
    ELSE LET currentPath == paths[antPaths[ant]] IN
         IF positions[ant] >= Len(currentPath) - 1
         THEN TurnLoopMainCountsEveryMove(end, paths, antPaths, ant + 1, positions, moves,
                                          occupied, finished)
         ELSE LET nextPos == positions[ant] + 1
                  nextRoom == currentPath[nextPos + 1]
              IN  IF nextRoom = end \/ nextRoom \notin occupied
                  THEN TurnLoopMainCountsEveryMove(end, paths, antPaths, ant + 1,
                                    [positions EXCEPT ![ant] = nextPos],
                                    Append(moves, Move(ant, nextRoom)),
                                    IF nextRoom # end THEN occupied \cup {nextRoom} ELSE occupied,
                                    finished + 1)
                  ELSE TurnLoopMainCountsEveryMove(end, paths, antPaths, ant + 1, positions,
                                                   moves, occupied, finished)

\* TurnLoopMain that never marks a destination room as occupied.
RECURSIVE TurnLoopMainNeverOccupied(_, _, _, _, _, _, _, _)
TurnLoopMainNeverOccupied(end, paths, antPaths, ant, positions, moves, occupied, finished) ==
    IF ant > Len(positions)
    THEN [positions |-> positions, moves |-> moves, antsFinished |-> finished]
    ELSE LET currentPath == paths[antPaths[ant]] IN
         IF positions[ant] >= Len(currentPath) - 1
         THEN TurnLoopMainNeverOccupied(end, paths, antPaths, ant + 1, positions, moves,
                                        occupied, finished)
         ELSE LET nextPos == positions[ant] + 1
                  nextRoom == currentPath[nextPos + 1]
              IN  TurnLoopMainNeverOccupied(end, paths, antPaths, ant + 1,
                                    [positions EXCEPT ![ant] = nextPos],
                                    Append(moves, Move(ant, nextRoom)),
                                    occupied,
                                    IF nextRoom = end THEN finished + 1 ELSE finished)

\* TurnLoopMain that treats end like any other room: an ant moves only into
\* a room not occupied in this turn, and every destination is marked.
RECURSIVE TurnLoopMainEndOccupied(_, _, _, _, _, _, _, _)
TurnLoopMainEndOccupied(end, paths, antPaths, ant, positions, moves, occupied, finished) ==
    IF ant > Len(positions)
    THEN [positions |-> positions, moves |-> moves, antsFinished |-> finished]
    ELSE LET currentPath == paths[antPaths[ant]] IN
         IF positions[ant] >= Len(currentPath) - 1
         THEN TurnLoopMainEndOccupied(end, paths, antPaths, ant + 1, positions, moves,
                                      occupied, finished)
         ELSE LET nextPos == positions[ant] + 1
                  nextRoom == currentPath[nextPos + 1]
              IN  IF nextRoom \notin occupied
                  THEN TurnLoopMainEndOccupied(end, paths, antPaths, ant + 1,
                                    [positions EXCEPT ![ant] = nextPos],
                                    Append(moves, Move(ant, nextRoom)),
                                    occupied \cup {nextRoom},
                                    IF nextRoom = end THEN finished + 1 ELSE finished)
                  ELSE TurnLoopMainEndOccupied(end, paths, antPaths, ant + 1, positions,
                                               moves, occupied, finished)

\* One turn of src/main.go: the loop over the ants 0..ants-1 (1..ants here).
\* positions are 0-based indices into the ant's route, as in the source.
RECURSIVE TurnLoopMain(_, _, _, _, _, _, _, _)
TurnLoopMain(end, paths, antPaths, ant, positions, moves, occupied, finished) ==
    IF ant > Len(positions)
    THEN [positions |-> positions, moves |-> moves, antsFinished |-> finished]
    ELSE LET currentPath == paths[antPaths[ant]] IN
         IF positions[ant] >= Len(currentPath) - 1
         THEN TurnLoopMain(end, paths, antPaths, ant + 1, positions, moves, occupied, finished)
         ELSE LET nextPos == positions[ant] + 1
                  nextRoom == currentPath[nextPos + 1]
              IN  IF nextRoom = end \/ nextRoom \notin occupied
                  THEN TurnLoopMain(end, paths, antPaths, ant + 1,
                                    [positions EXCEPT ![ant] = nextPos],
                                    Append(moves, Move(ant, nextRoom)),
                                    IF nextRoom # end THEN occupied \cup {nextRoom} ELSE occupied,
                                    IF nextRoom = end THEN finished + 1 ELSE finished)
                  ELSE TurnLoopMain(end, paths, antPaths, ant + 1, positions, moves,
                                    occupied, finished)

turnMain(end, paths, antPaths, positions, antsFinished) ==
    TurnLoopMain(end, paths, antPaths, 1, positions, <<>>, {}, antsFinished)

\* The initial antPositions of src/unnamed/part_000: route by route, and the
\* ants of a route in the order of its distribution list.
AntPosition(ant, path, step) == [ant |-> ant, path |-> path, step |-> step]

RECURSIVE InitialAntPositions(_, _)
InitialAntPositions(antDistribution, pathIndex) ==
    IF pathIndex > Len(antDistribution) THEN <<>>
    ELSE [k \in DOMAIN antDistribution[pathIndex] |->
             AntPosition(antDistribution[pathIndex][k], pathIndex, 0)]
         \o InitialAntPositions(antDistribution, pathIndex + 1)

\* TurnLoopPart that never marks a link as used.
RECURSIVE TurnLoopPartNeverUsed(_, _, _, _, _, _)
TurnLoopPartNeverUsed(paths, antPositions, k, moves, newPositions, usedLinks) ==
    IF k > Len(antPositions) THEN [moves |-> moves, antPositions |-> newPositions]
    ELSE LET pos == antPositions[k] IN
         IF pos.step < Len(paths[pos.path]) - 1
         THEN TurnLoopPartNeverUsed(paths, antPositions, k + 1,
                                    Append(moves, Move(pos.ant, paths[pos.path][pos.step + 2])),
                                    Append(newPositions,
                                           AntPosition(pos.ant, pos.path, pos.step + 1)),
                                    usedLinks)
         ELSE TurnLoopPartNeverUsed(paths, antPositions, k + 1, moves, newPositions, usedLinks)

\* One turn of src/unnamed/part_000: the loop over antPositions.  A link key
\* currentRoom + "-" + nextRoom is the pair of the two names (a room that
\* has a link has no "-" in its name, so the key determines the pair).
RECURSIVE TurnLoopPart(_, _, _, _, _, _)
TurnLoopPart(paths, antPositions, k, moves, newPositions, usedLinks) ==
    IF k > Len(antPositions) THEN [moves |-> moves, antPositions |-> newPositions]
    ELSE LET pos == antPositions[k] IN
         IF pos.step < Len(paths[pos.path]) - 1
         THEN LET currentRoom == paths[pos.path][pos.step + 1]
                  nextRoom == paths[pos.path][pos.step + 2]
                  link == <<currentRoom, nextRoom>>
              IN  IF link \notin usedLinks
                  THEN TurnLoopPart(paths, antPositions, k + 1,
                                    Append(moves, Move(pos.ant, nextRoom)),
                                    Append(newPositions,
                                           AntPosition(pos.ant, pos.path, pos.step + 1)),
                                    usedLinks \cup {link})
                  ELSE TurnLoopPart(paths, antPositions, k + 1, moves,
                                    Append(newPositions, pos), usedLinks)
         ELSE TurnLoopPart(paths, antPositions, k + 1, moves, newPositions, usedLinks)

turnPart(paths, antPositions) == TurnLoopPart(paths, antPositions, 1, <<>>, <<>>, {})

\* The quotient without the rounding term: (ants + sum - len(paths)) / len(paths).
theoreticalRoundedDown(ants, paths) ==
    (ants + SumSeq(pathLengths(paths)) - Len(paths)) \div Len(paths)

\* The "Theoretical minimum" of the statistics of src/main.go.
theoretical(ants, paths) == (ants + SumSeq(pathLengths(paths)) - 1) \div Len(paths)


(***************************************************************************)
(* Input files.                                                            *)
(***************************************************************************)
RoomNames == <<"start", "end", "1", "2">>

\* Coordinates of the declared rooms (pairwise distinct, as the stricter
\* loader requires).
RoomX == [n \in Range(RoomNames) |->
             IF n = "start" THEN -2 ELSE IF n = "end" THEN 10 ELSE IF n = "1" THEN 0 ELSE 5]

RoomY == [n \in Range(RoomNames) |-> IF n \in {"start", "end"} THEN 0 ELSE 3]

\* The room section of a file declaring the first nrooms names.
RoomSection(nrooms) ==
    <<CmdLine("##start"), RoomLine("start", RoomX["start"], RoomY["start"]),
      CmdLine("##end"), RoomLine("end", RoomX["end"], RoomY["end"])>>
    \o [i \in 1..(nrooms - 2) |->
           RoomLine(RoomNames[i + 2], RoomX[RoomNames[i + 2]], RoomY[RoomNames[i + 2]])]

\* A tunnel line for every pair of different names ("a-b" and "b-a" load
\* the same links, so one orientation is kept).
ProperTunnels ==
    {TunnelLine("start", "end"), TunnelLine("start", "1"), TunnelLine("start", "2"),
     TunnelLine("1", "end"), TunnelLine("2", "end"), TunnelLine("1", "2")}

\* The tunnel from start to itself.
LoopTunnel == TunnelLine("start", "start")

File(n, nrooms, tunnels) == <<AntsLine(n)>> \o RoomSection(nrooms) \o tunnels

SeqsUpTo(S, n) == UNION {[1..k -> S] : k \in 0..n}

NoRepeat(t) == \A i, j \in DOMAIN t : i # j => t[i] # t[j]

\* Any list of at most MaxTunnels tunnel lines, a line repeated and the loop
\* at start included, after a room section that declares all four rooms or
\* leaves "2" undeclared.
GeneralInputs ==
    {File(n, nrooms, t) : n \in 1..MaxAnts,
                          nrooms \in {3, 4},
                          t \in SeqsUpTo(ProperTunnels \cup {LoopTunnel}, MaxTunnels)}

\* The simple graphs on the four rooms with at most MaxSimpleTunnels
\* tunnels, in every declaration order, with up to MaxSimpleAnts ants.
SimpleInputs ==
    {File(n, 4, t) : n \in 1..MaxSimpleAnts,
                     t \in {u \in SeqsUpTo(ProperTunnels, MaxSimpleTunnels) : NoRepeat(u)}}

\* The tunnels of the graph on five rooms whose two branches start-1 and
\* start-2 join at room 3, the only room next to end.
DiamondTunnels ==
    {TunnelLine("start", "1"), TunnelLine("start", "2"), TunnelLine("1", "3"),
     TunnelLine("2", "3"), TunnelLine("3", "end")}

\* A file declaring the four rooms and the room 3.
DiamondFile(n, tunnels) ==
    <<AntsLine(n)>> \o RoomSection(4) \o <<RoomLine("3", 5, 6)>> \o tunnels

\* That graph and its subgraphs, in every declaration order, with up to
\* MaxAnts ants.
DiamondInputs ==
    {DiamondFile(n, t) : n \in 1..MaxAnts,
                         t \in {u \in SeqsUpTo(DiamondTunnels, Cardinality(DiamondTunnels)) :
                                    NoRepeat(u)}}

Inputs == GeneralInputs \cup SimpleInputs \cup DiamondInputs

(***************************************************************************)
(* The state of a run of one of the programs on one input file.            *)
(***************************************************************************)
VARIABLES
    prog,             \* which program runs
    input,            \* the lines of the input file
    pc,               \* where main is
    outcome,          \* "running", "error", "panic", "nopaths", "finished"
    farm,             \* the Farm parseInput returned
    allPaths,         \* main's allPaths
    bestPaths,        \* main's bestPaths
    nonOverlapPaths,  \* main's nonOverlapPaths
    finalPaths,       \* main's finalPaths
    antPaths,         \* src/main.go simulateAnts: route of each ant
    antsAssigned,     \* src/main.go simulateAnts: ants per route
    positions,        \* src/main.go simulateAnts: position of each ant
    antsFinished,     \* src/main.go simulateAnts
    round,            \* src/main.go simulateAnts
    antDistribution,  \* part_000 main: the result of distributeAnts
    antPositions,     \* part_000 simulateAnts
    out,              \* the move lists printed, one per turn that has moves
    call              \* a single call of one function: its arguments and result

vars == <<prog, input, pc, outcome, farm, allPaths, bestPaths, nonOverlapPaths,
          finalPaths, antPaths, antsAssigned, positions, antsFinished, round,
          antDistribution, antPositions, out, call>>

\* The variable that no step of a run of main touches.
auxVars == <<call>>

\* No function is called on its own.
NoCall == [fn |-> "none"]

routeVars == <<allPaths, bestPaths, nonOverlapPaths, finalPaths>>

simVars == <<antPaths, antsAssigned, positions, antsFinished, round,
             antDistribution, antPositions, out>>

InitWith(I) ==
    /\ prog \in Progs
    /\ input \in I
    /\ pc = "parse"
    /\ outcome = "running"
    /\ farm = NoFarm
    /\ allPaths = Nil
    /\ bestPaths = Nil
    /\ nonOverlapPaths = Nil
    /\ finalPaths = Nil
    /\ antPaths = <<>>
    /\ antsAssigned = <<>>
    /\ positions = <<>>
    /\ antsFinished = 0
    /\ round = 0
    /\ antDistribution = <<>>
    /\ antPositions = <<>>
    /\ out = <<>>
    /\ call = NoCall

Init == InitWith(Inputs)

\* The program ends with the given outcome.
Halt(o) == pc' = "done" /\ outcome' = o

\* main: farm, err := parseInput(filename)
Parse ==
    /\ pc = "parse"
    /\ LET r == parseInput(prog, input) IN
       IF r.err THEN Halt("error") /\ UNCHANGED farm
       ELSE pc' = "findAll" /\ farm' = r.farm /\ UNCHANGED outcome
    /\ UNCHANGED <<auxVars, prog, input, routeVars, simVars>>

\* main: allPaths := findAllShortestPaths(farm)
FindAllShortestPaths ==
    /\ pc = "findAll"
    /\ LET r == findAllShortestPaths(farm) IN
       IF r = Panic THEN Halt("panic") /\ UNCHANGED allPaths
       ELSE pc' = "selectBest" /\ allPaths' = r /\ UNCHANGED outcome
    /\ UNCHANGED <<auxVars, prog, input, farm, bestPaths, nonOverlapPaths, finalPaths, simVars>>

\* main: bestPaths := selectBestPaths(farm, allPaths)
SelectBestPaths ==
    /\ pc = "selectBest"
    /\ LET r == selectBestPaths(allPaths) IN
       allPaths' = r.sorted /\ bestPaths' = r.selected
    /\ pc' = "findNonOverlap"
    /\ UNCHANGED <<auxVars, prog, input, outcome, farm, nonOverlapPaths, finalPaths, simVars>>

\* main: nonOverlapPaths := findNonOverlappingPaths(farm)
FindNonOverlappingPaths ==
    /\ pc = "findNonOverlap"
    /\ LET r == findNonOverlappingPaths(farm) IN
       IF r = Panic THEN Halt("panic") /\ UNCHANGED nonOverlapPaths
       ELSE pc' = "chooseFinal" /\ nonOverlapPaths' = r /\ UNCHANGED outcome
    /\ UNCHANGED <<auxVars, prog, input, farm, allPaths, bestPaths, finalPaths, simVars>>

\* main: the choice of finalPaths and the "No valid paths found!" return.
ChooseFinal ==
    /\ pc = "chooseFinal"
    /\ finalPaths' = chooseFinalPaths(nonOverlapPaths, bestPaths)
    /\ IF noValidPaths(finalPaths') THEN Halt("nopaths")
       ELSE pc' = "allocate" /\ UNCHANGED outcome
    /\ UNCHANGED <<auxVars, prog, input, farm, allPaths, bestPaths, nonOverlapPaths, simVars>>

\* src/main.go simulateAnts up to the turn loop.
\* With no path it prints "No valid paths found!" and returns.
AllocateMain ==
    /\ pc = "allocate" /\ prog = "main"
    /\ IF Len(finalPaths) = 0
       THEN /\ Halt("nopaths")
            /\ UNCHANGED <<antPaths, antsAssigned, positions, round, antsFinished>>
       ELSE /\ LET r == allocateMain(farm.Ants, finalPaths) IN
               /\ antPaths' = r.antPaths
               /\ antsAssigned' = r.antsAssigned
            /\ positions' = [a \in 1..farm.Ants |-> 0]
            /\ round' = 1
            /\ antsFinished' = 0
            /\ pc' = "turn"
            /\ UNCHANGED outcome
    /\ UNCHANGED <<auxVars, prog, input, farm, routeVars, antDistribution, antPositions, out>>

\* src/main.go simulateAnts: one iteration of the turn loop.
TurnMain ==
    /\ pc = "turn" /\ prog = "main"
    /\ antsFinished < farm.Ants
    /\ LET r == turnMain(farm.End, finalPaths, antPaths, positions, antsFinished) IN
       /\ positions' = r.positions
       /\ antsFinished' = r.antsFinished
       /\ out' = IF Len(r.moves) > 0 THEN Append(out, r.moves) ELSE out
    /\ round' = round + 1
    /\ UNCHANGED <<auxVars, prog, input, pc, outcome, farm, routeVars, antPaths, antsAssigned,
                   antDistribution, antPositions>>

\* src/main.go simulateAnts: the turn loop is left and the statistics printed.
StatisticsMain ==
    /\ pc = "turn" /\ prog = "main"
    /\ ~(antsFinished < farm.Ants)
    /\ Halt("finished")
    /\ UNCHANGED <<auxVars, prog, input, farm, routeVars, simVars>>

\* part_000 main: distributeAnts, and simulateAnts up to the turn loop.
\* With no path, lengths[0] in distributeAnts is an index out of range.
DistributeAnts ==
    /\ pc = "allocate" /\ prog = "part000"
    /\ IF Len(finalPaths) = 0
       THEN Halt("panic") /\ UNCHANGED <<antDistribution, antPositions>>
       ELSE /\ antDistribution' = distributeAnts(farm.Ants, finalPaths)
            /\ antPositions' = InitialAntPositions(antDistribution', 1)
            /\ pc' = "turn"
            /\ UNCHANGED outcome
    /\ UNCHANGED <<auxVars, prog, input, farm, routeVars, antPaths, antsAssigned,
                   positions, antsFinished, round, out>>

\* part_000 simulateAnts: one iteration of the turn loop.
TurnPart ==
    /\ pc = "turn" /\ prog = "part000"
    /\ Len(antPositions) > 0
    /\ LET r == turnPart(finalPaths, antPositions) IN
       /\ antPositions' = r.antPositions
       /\ out' = IF Len(r.moves) > 0 THEN Append(out, r.moves) ELSE out
    /\ UNCHANGED <<auxVars, prog, input, pc, outcome, farm, routeVars, antPaths, antsAssigned,
                   positions, antsFinished, round, antDistribution>>

\* part_000 simulateAnts returns and main prints the result.
PrintPart ==
    /\ pc = "turn" /\ prog = "part000"
    /\ ~(Len(antPositions) > 0)
    /\ Halt("finished")
    /\ UNCHANGED <<auxVars, prog, input, farm, routeVars, simVars>>

Next ==
    \/ Parse
    \/ FindAllShortestPaths
    \/ SelectBestPaths
    \/ FindNonOverlappingPaths
    \/ ChooseFinal
    \/ AllocateMain
    \/ TurnMain
    \/ StatisticsMain
    \/ DistributeAnts
    \/ TurnPart
    \/ PrintPart

Spec == Init /\ [][Next]_vars

\* The program keeps running: an iteration of a turn loop, or the step that
\* leaves it, is taken when it can be.
TurnLoopStep == TurnMain \/ StatisticsMain \/ TurnPart \/ PrintPart

FairSpec == Spec /\ WF_vars(TurnLoopStep)

(***************************************************************************)
(* One function called on its own.  main is not running (pc = "call"); the *)
(* arguments and the result of the call are in the variable call.          *)
(***************************************************************************)
\* main's variables while a function is called on its own.
Idle ==
    /\ pc = "call"
    /\ outcome = "running"
    /\ farm = NoFarm
    /\ allPaths = Nil /\ bestPaths = Nil /\ nonOverlapPaths = Nil /\ finalPaths = Nil
    /\ antPaths = <<>> /\ antsAssigned = <<>> /\ positions = <<>>
    /\ antsFinished = 0 /\ round = 0
    /\ antDistribution = <<>> /\ antPositions = <<>> /\ out = <<>>

\* The files whose farms the search is called on: every file of Inputs with
\* one ant (the search does not read the number of ants).
BfsInputs == {I \in Inputs : I[1].x = 1}

\* The rooms a caller can have blocked, that is the rooms a path can hold
\* between its first and its last: every declared room other than end (a
\* path stops at end), start only when it is a link of itself (the path
\* [start, start, ...]).
Blockable(f) ==
    {r \in DOMAIN f.Rooms :
        /\ r # f.End
        /\ r = f.Start => f.Start \in Range(Links(f, f.Start))}

\* The calls bfsShortestPath(f, startNeighbor, blockedRooms) on the farm f a
\* loader returned: startNeighbor is a link of start, as in both callers.
BfsCalls(f) ==
    {[fn |-> "bfsShortestPath", f |-> f, startNeighbor |-> n, blockedRooms |-> B,
      returned |-> FALSE, ret |-> Nil] :
        n \in Range(Links(f, f.Start)), B \in SUBSET Blockable(f)}

BfsInit ==
    /\ prog \in Progs
    /\ input \in BfsInputs
    /\ ~parseInput(prog, input).err
    /\ call \in BfsCalls(parseInput(prog, input).farm)
    /\ Idle

\* path := bfsShortestPath(f, startNeighbor, blockedRooms)
BfsShortestPathCall ==
    /\ pc = "call" /\ call.fn = "bfsShortestPath" /\ ~call.returned
    /\ call' = [call EXCEPT !.returned = TRUE,
                            !.ret = bfsShortestPath(call.f, call.startNeighbor,
                                                    call.blockedRooms)]
    /\ UNCHANGED <<prog, input, pc, outcome, farm, routeVars, simVars>>

BfsNext == BfsShortestPathCall

BfsSpec == BfsInit /\ [][BfsNext]_vars

\* The first lines of findNonOverlappingPaths called on the farm a loader
\* returned: the copy of start's links and its sort.
NeighborCalls(f) ==
    {[fn |-> "sortNeighbors", f |-> f, returned |-> FALSE, ret |-> Nil]}

NeighborInit ==
    /\ prog \in Progs
    /\ input \in BfsInputs
    /\ ~parseInput(prog, input).err
    /\ call \in NeighborCalls(parseInput(prog, input).farm)
    /\ Idle

\* neighbors := copy of f.Rooms[f.Start].Links, sorted by the two loops.
SortNeighborsCall ==
    /\ pc = "call" /\ call.fn = "sortNeighbors" /\ ~call.returned
    /\ call' = [call EXCEPT !.returned = TRUE, !.ret = SortedNeighbors(call.f)]
    /\ UNCHANGED <<prog, input, pc, outcome, farm, routeVars, simVars>>

NeighborNext == SortNeighborsCall

NeighborSpec == NeighborInit /\ [][NeighborNext]_vars

\* Routes from start to end of one to four edges, two of them of two edges.
RoutePool ==
    {<<"start", "end">>, <<"start", "1", "end">>, <<"start", "2", "end">>,
     <<"start", "1", "2", "end">>, <<"start", "1", "2", "3", "end">>}

\* The route lists handed to an allocator: one to MaxRoutes routes.
RouteLists == UNION {[1..k -> RoutePool] : k \in 1..MaxRoutes}

\* The two allocators and the statistics called on the same route list and
\* agent count; a result is <<>> until its call has returned, then <<r>>.
AllocCalls ==
    {[fn |-> "allocate", paths |-> paths, ants |-> n,
      main |-> <<>>, part |-> <<>>, stat |-> <<>>] :
        paths \in RouteLists, n \in 1..MaxSimpleAnts}

AllocInit ==
    /\ prog = "main"
    /\ input = <<>>
    /\ call \in AllocCalls
    /\ Idle

\* The allocation loop of simulateAnts in src/main.go.
AllocateMainCall ==
    /\ pc = "call" /\ call.fn = "allocate" /\ call.main = <<>>
    /\ call' = [call EXCEPT !.main = <<allocateMain(call.ants, call.paths)>>]
    /\ UNCHANGED <<prog, input, pc, outcome, farm, routeVars, simVars>>

\* antDistribution := distributeAnts(farm.Ants, finalPaths) in part_000.
DistributeAntsCall ==
    /\ pc = "call" /\ call.fn = "allocate" /\ call.part = <<>>
    /\ call' = [call EXCEPT !.part = <<distributeAnts(call.ants, call.paths)>>]
    /\ UNCHANGED <<prog, input, pc, outcome, farm, routeVars, simVars>>

\* The "Theoretical minimum" of the statistics of src/main.go.
TheoreticalCall ==
    /\ pc = "call" /\ call.fn = "allocate" /\ call.stat = <<>>
    /\ call' = [call EXCEPT !.stat = <<theoretical(call.ants, call.paths)>>]
    /\ UNCHANGED <<prog, input, pc, outcome, farm, routeVars, simVars>>

AllocNext == AllocateMainCall \/ DistributeAntsCall \/ TheoreticalCall

AllocSpec == AllocInit /\ [][AllocNext]_vars

\* The simple routes from start to end through the rooms 1, 2 and 3.
RECURSIVE SimplePaths(_, _)
SimplePaths(p, rooms) ==
    {Append(p, "end")} \cup UNION {SimplePaths(Append(p, r), rooms \ {r}) : r \in rooms}

SchedRoutes == SimplePaths(<<"start">>, {"1", "2", "3"})

\* The lists of one to MaxRoutes of those routes in which no two routes
\* share an intermediate room.
DisjointRouteLists ==
    {l \in UNION {[1..k -> SchedRoutes] : k \in 1..MaxRoutes} :
        \A i, j \in DOMAIN l : i # j => ~pathsShareRooms(l[i], l[j])}

\* simulateAnts of src/main.go called on a list of disjoint routes: main has
\* chosen finalPaths and the farm has up to MaxSimpleAnts ants.
SchedInit ==
    /\ prog = "main"
    /\ input = <<>>
    /\ pc = "allocate"
    /\ outcome = "running"
    /\ \E n \in 1..MaxSimpleAnts :
          farm = [NoFarm EXCEPT !.Ants = n, !.Start = "start", !.End = "end"]
    /\ allPaths = Nil /\ bestPaths = Nil /\ nonOverlapPaths = Nil
    /\ finalPaths \in DisjointRouteLists
    /\ antPaths = <<>> /\ antsAssigned = <<>> /\ positions = <<>>
    /\ antsFinished = 0 /\ round = 0
    /\ antDistribution = <<>> /\ antPositions = <<>> /\ out = <<>>
    /\ call = NoCall

SchedNext == AllocateMain \/ TurnMain \/ StatisticsMain

SchedSpec == SchedInit /\ [][SchedNext]_vars

\* The lists of DisjointRouteLists that hold no route twice.
DistinctDisjointRouteLists ==
    {l \in DisjointRouteLists : \A i, j \in DOMAIN l : i # j => l[i] # l[j]}

\* part_000's main from distributeAnts on, called on a list of distinct
\* disjoint routes with up to MaxSimpleAnts ants.
PartSchedInit ==
    /\ prog = "part000"
    /\ input = <<>>
    /\ pc = "allocate"
    /\ outcome = "running"
    /\ \E n \in 1..MaxSimpleAnts :
          farm = [NoFarm EXCEPT !.Ants = n, !.Start = "start", !.End = "end"]
    /\ allPaths = Nil /\ bestPaths = Nil /\ nonOverlapPaths = Nil
    /\ finalPaths \in DistinctDisjointRouteLists
    /\ antPaths = <<>> /\ antsAssigned = <<>> /\ positions = <<>>
    /\ antsFinished = 0 /\ round = 0
    /\ antDistribution = <<>> /\ antPositions = <<>> /\ out = <<>>
    /\ call = NoCall

PartSchedNext == DistributeAnts \/ TurnPart \/ PrintPart

PartSchedSpec == PartSchedInit /\ [][PartSchedNext]_vars

(***************************************************************************)
(* Vocabulary of the properties.                                           *)
(***************************************************************************)
\* finalPaths holds the route set main chose.
FinalChosen == pc \in {"allocate", "turn"} \/ (pc = "done" /\ outcome \in {"nopaths", "finished"})

\* The agents have been allocated and the turn loop has been entered.
Simulating == pc = "turn" \/ (pc = "done" /\ outcome = "finished")

Finished == pc = "done" /\ outcome = "finished"

NoRepeatedRoom(path) == \A i, j \in DOMAIN path : i # j => path[i] # path[j]

EdgeCount(path) == Len(path) - 1

\* The room agent a of src/main.go is in.
RoomOfMain(a) == finalPaths[antPaths[a]][positions[a] + 1]

\* The number of agents per route, in either program.
Counts ==
    IF prog = "main" THEN antsAssigned
    ELSE [i \in DOMAIN antDistribution |-> Len(antDistribution[i])]

\* The route of agent a, in either program.
RouteOf(a) ==
    IF prog = "main" THEN antPaths[a]
    ELSE CHOOSE i \in DOMAIN antDistribution : a \in Range(antDistribution[i])

\* The moves printed so far, in order.
RECURSIVE Flatten(_)
Flatten(ss) == IF ss = <<>> THEN <<>> ELSE Head(ss) \o Flatten(Tail(ss))

MovesOf(a) == SelectSeq(Flatten(out), LAMBDA m : m.ant = a)

\* Agent a has walked its whole route: one move per edge, the last into end.
Arrived(a) ==
    LET ms == MovesOf(a)
        route == finalPaths[RouteOf(a)]
    IN  /\ Len(ms) = EdgeCount(route)
        /\ \A k \in DOMAIN ms : ms[k].room = route[k + 1]

AllAtEnd ==
    /\ \A a \in 1..farm.Ants : Arrived(a)
    /\ prog = "main" =>
          \A a \in 1..farm.Ants : positions[a] = Len(finalPaths[antPaths[a]]) - 1
    /\ prog = "part000" => antPositions = <<>>

\* Turns of the schedule: round-1 in src/main.go, the lines of the result
\* in part_000.
Turns == IF prog = "main" THEN round - 1 ELSE Len(out)

CeilDiv(a, b) == -((-a) \div b)

LowerBound(ants, paths) ==
    CeilDiv(ants + SumSeq(pathLengths(paths)) - Len(paths), Len(paths))

RECURSIVE MaxSeq(_)
MaxSeq(s) == IF s = <<>> THEN 0 ELSE Max(Head(s), MaxSeq(Tail(s)))

\* The tunnels of the input file, as a set.
TunnelsOf(file) == {file[i] : i \in {k \in DOMAIN file : file[k].kind = "tunnel"}}

RoomsOf(file) == {file[i].a : i \in {k \in DOMAIN file : file[k].kind = "room"}}

(***************************************************************************)
(* C1.  Any two distinct routes of the route set main hands to the         *)
(* simulation have disjoint sets of intermediate rooms.                    *)
(* The search never tests its forced first hop against the blocked set, so *)
(* a neighbor of start that an earlier route passes through still yields   *)
(* a route of its own.                                                     *)
(***************************************************************************)
C1_RoutesDisjoint ==
    FinalChosen =>
        \A i, j \in DOMAIN finalPaths :
            finalPaths[i] # finalPaths[j] =>
                Intermediate(finalPaths[i]) \cap Intermediate(finalPaths[j]) = {}

(***************************************************************************)
(* C2.  Every route of the final route set starts at start, ends at end,   *)
(* contains no room twice and has at least one edge.                       *)
(* A tunnel from start to itself makes start its own neighbor, and the     *)
(* search seeded with [start, start] returns a route through start twice.  *)
(***************************************************************************)
C2_RoutesWellFormed ==
    FinalChosen =>
        \A i \in DOMAIN finalPaths :
            LET route == finalPaths[i] IN
            /\ route[1] = farm.Start
            /\ Last(route) = farm.End
            /\ NoRepeatedRoom(route)
            /\ EdgeCount(route) >= 1

(***************************************************************************)
(* C3.  In src/main.go, at the end of every turn each room other than      *)
(* start and end is the position of at most one agent.                     *)
(***************************************************************************)
C3_OneAgentPerRoom ==
    (prog = "main" /\ Simulating) =>
        \A a, b \in 1..farm.Ants :
            (a # b /\ RoomOfMain(a) = RoomOfMain(b)) =>
                RoomOfMain(a) \in {farm.Start, farm.End}

(***************************************************************************)
(* C4.  In part_000, no turn's move list holds two moves of different      *)
(* agents into the same room other than end.                               *)
(***************************************************************************)
C4_NoSharedDestination ==
    prog = "part000" =>
        \A t \in DOMAIN out :
            \A i, j \in DOMAIN out[t] :
                (out[t][i].ant # out[t][j].ant /\ out[t][i].room = out[t][j].room) =>
                    out[t][i].room = farm.End

(***************************************************************************)
(* C5.  Once the turn loop is entered (the route set is not empty) it is   *)
(* left, and then every agent has walked its whole route and stands at its *)
(* last index, in both programs.                                           *)
(***************************************************************************)
C5_TurnLoopTerminates == (pc = "turn") ~> (Finished /\ AllAtEnd)

\* A finished run of three or more agents over two or more routes in which
\* some agent had to wait.
C5_Witness ==
    /\ Finished /\ AllAtEnd
    /\ farm.Ants >= 3
    /\ Len(finalPaths) >= 2
    /\ Turns > MaxSeq(pathLengths(finalPaths))

(***************************************************************************)
(* C6, as stated.  The turns src/main.go takes (round-1 at loop exit) are  *)
(* at least ceil((N + sum of route lengths - k) / k) and at least the edge *)
(* count of the longest route of the route set.                            *)
(***************************************************************************)
C6_Original ==
    (prog = "main" /\ Finished) =>
        /\ Turns >= LowerBound(farm.Ants, finalPaths)
        /\ Turns >= MaxSeq(pathLengths(finalPaths))

\* The routes that received at least one agent.
UsedRoutes == {i \in DOMAIN finalPaths : Counts[i] > 0}

MaxOver(S, f) == IF S = {} THEN 0 ELSE CHOOSE m \in {f[i] : i \in S} : \A i \in S : f[i] <= m

(***************************************************************************)
(* C6, amended.  The turns src/main.go takes are at least the edge count   *)
(* of the longest route that received an agent; and when every route       *)
(* received an agent and no route is the direct tunnel from start to end,  *)
(* they are at least ceil((N + sum of route lengths - k) / k).             *)
(***************************************************************************)
C6_TurnsLowerBound ==
    (prog = "main" /\ Finished) =>
        /\ Turns >= MaxOver(UsedRoutes, pathLengths(finalPaths))
        /\ (/\ UsedRoutes = DOMAIN finalPaths
            /\ \A i \in DOMAIN finalPaths : EdgeCount(finalPaths[i]) >= 2)
           => Turns >= LowerBound(farm.Ants, finalPaths)

\* A finished run of src/main.go over two routes of two edges or more, both
\* used, whose turn count is exactly the bound.
C6_Witness ==
    /\ prog = "main" /\ Finished
    /\ Len(finalPaths) = 2
    /\ UsedRoutes = DOMAIN finalPaths
    /\ \A i \in DOMAIN finalPaths : EdgeCount(finalPaths[i]) >= 2
    /\ farm.Ants >= 3
    /\ Turns = LowerBound(farm.Ants, finalPaths)

\* The allocation has just been made: the turn loop is about to start.
JustAllocated == pc = "turn" /\ out = <<>>

\* Every way of giving n agents to the routes 1..k, as agents per route.
Distributions(n, k) == {d \in [1..k -> 0..n] : SumSeq(d) = n}

\* The largest route edge count + agents on it, over the routes that got an
\* agent.
FinishLoad(paths, d) ==
    MaxOver({i \in DOMAIN paths : d[i] > 0}, [i \in DOMAIN paths |-> EdgeCount(paths[i]) + d[i]])

\* Each agent 1..N is on exactly one route, and the per-route counts say so.
EachAgentOnOneRoute ==
    IF prog = "main"
    THEN /\ DOMAIN antPaths = 1..farm.Ants
         /\ \A a \in 1..farm.Ants : antPaths[a] \in DOMAIN finalPaths
         /\ DOMAIN antsAssigned = DOMAIN finalPaths
         /\ \A i \in DOMAIN finalPaths :
               antsAssigned[i] = Cardinality({a \in 1..farm.Ants : antPaths[a] = i})
    ELSE /\ DOMAIN antDistribution = DOMAIN finalPaths
         /\ \A a \in 1..farm.Ants :
               Cardinality({ik \in {<<i, k>> : i \in DOMAIN antDistribution, k \in 1..farm.Ants} :
                               /\ ik[2] \in DOMAIN antDistribution[ik[1]]
                               /\ antDistribution[ik[1]][ik[2]] = a}) = 1
         /\ \A i \in DOMAIN antDistribution : Range(antDistribution[i]) \subseteq 1..farm.Ants

(***************************************************************************)
(* C7.  The allocator of either program puts each of the N agents on       *)
(* exactly one route, and no other distribution of N agents over the       *)
(* routes has a smaller maximum, over the routes that got an agent, of     *)
(* route edge count + agents on the route.                                 *)
(***************************************************************************)
C7_AllocationMinimizesLoad ==
    JustAllocated =>
        /\ EachAgentOnOneRoute
        /\ \A d \in Distributions(farm.Ants, Len(finalPaths)) :
              FinishLoad(finalPaths, d) >= FinishLoad(finalPaths, Counts)

\* An allocation of four or more agents over routes of different lengths
\* that uses more than one route.
C7_Witness ==
    /\ JustAllocated
    /\ farm.Ants >= 4
    /\ Cardinality(UsedRoutes) >= 2
    /\ \E i, j \in DOMAIN finalPaths : EdgeCount(finalPaths[i]) # EdgeCount(finalPaths[j])
    /\ \E i, j \in DOMAIN finalPaths : Counts[i] # Counts[j]

\* The file of the first scenario: 2 ants, rooms start, end and 1, tunnels
\* start-1 and 1-end.
C8_Input == File(2, 3, <<TunnelLine("start", "1"), TunnelLine("1", "end")>>)

(***************************************************************************)
(* C8.  On the graph start-1, 1-end with 2 agents either program selects   *)
(* the one route [start,1,end], puts both agents on it and prints exactly  *)
(* three turns: L1-1, then L1-end L2-1, then L2-end.                       *)
(***************************************************************************)
C8_SingleRouteScenario ==
    (input = C8_Input /\ pc = "done") =>
        /\ outcome = "finished"
        /\ finalPaths = << <<"start", "1", "end">> >>
        /\ EdgeCount(finalPaths[1]) = 2
        /\ Counts = <<2>>
        /\ \A a \in 1..2 : RouteOf(a) = 1
        /\ Turns = 3
        /\ out = << <<Move(1, "1")>>,
                    <<Move(1, "end"), Move(2, "1")>>,
                    <<Move(2, "end")>> >>

\* The scenario has run to its end in part_000.
C8_Witness ==
    /\ input = C8_Input /\ pc = "done" /\ prog = "part000"
    /\ Len(out) = 3
    /\ antPositions = <<>>

\* The files of the second scenario: 4 ants, the four rooms, and the four
\* tunnels of the routes start-1-end and start-2-end in any order.
C9_Scenario ==
    /\ input[1] = AntsLine(4)
    /\ RoomsOf(input) = Range(RoomNames)
    /\ Cardinality({k \in DOMAIN input : input[k].kind = "tunnel"}) = 4
    /\ TunnelsOf(input) = {TunnelLine("start", "1"), TunnelLine("1", "end"),
                           TunnelLine("start", "2"), TunnelLine("2", "end")}

(***************************************************************************)
(* C9, as stated.  With two disjoint routes of length 2 and 4 agents, the  *)
(* allocator puts 2 agents on each route and the schedule takes 4 turns,   *)
(* which is the lower bound ceil((N + sum of route lengths - k) / k).      *)
(***************************************************************************)
C9_Original ==
    (C9_Scenario /\ pc = "done") =>
        /\ outcome = "finished"
        /\ Len(finalPaths) = 2
        /\ \A i \in DOMAIN finalPaths : EdgeCount(finalPaths[i]) = 2
        /\ Counts = <<2, 2>>
        /\ Turns = 4
        /\ Turns = LowerBound(farm.Ants, finalPaths)

(***************************************************************************)
(* C9, amended.  With two disjoint routes of length 2 and 4 agents, the    *)
(* allocator puts 2 agents on each route and the schedule takes 3 turns,   *)
(* which is the lower bound ceil((N + sum of route lengths - k) / k).      *)
(***************************************************************************)
C9_TwoRouteScenario ==
    (C9_Scenario /\ pc = "done") =>
        /\ outcome = "finished"
        /\ Len(finalPaths) = 2
        /\ \A i \in DOMAIN finalPaths : EdgeCount(finalPaths[i]) = 2
        /\ ~pathsShareRooms(finalPaths[1], finalPaths[2])
        /\ Counts = <<2, 2>>
        /\ Turns = 3
        /\ Turns = LowerBound(farm.Ants, finalPaths)

\* The scenario has run to its end in src/main.go, start-2 declared first.
C9_Witness ==
    /\ C9_Scenario /\ pc = "done" /\ prog = "main"
    /\ finalPaths = << <<"start", "2", "end">>, <<"start", "1", "end">> >>
    /\ antsAssigned = <<2, 2>>
    /\ round = 4

(***************************************************************************)
(* C10.  When the start room has no tunnel, the run ends with "No valid    *)
(* paths found!": the route set is empty, neither the allocator nor the    *)
(* turn loop runs, no move is printed and nothing panics.                  *)
(***************************************************************************)
C10_StartWithoutTunnel ==
    (farm.Start # "" /\ Links(farm, farm.Start) = <<>>) =>
        /\ pc \notin {"allocate", "turn"}
        /\ outcome \in {"running", "nopaths"}
        /\ pc = "done" => (outcome = "nopaths" /\ finalPaths = Nil)
        /\ out = <<>>
        /\ antPaths = <<>> /\ antDistribution = <<>> /\ antPositions = <<>>
        /\ round = 0

\* A run that ended with "No valid paths found!" on a graph whose start has
\* no tunnel while end has one.
C10_Witness ==
    /\ pc = "done" /\ outcome = "nopaths"
    /\ Links(farm, farm.Start) = <<>>
    /\ Links(farm, farm.End) # <<>>

(***************************************************************************)
(* C11.  In part_000's simulateAnts the agents are evaluated in strictly   *)
(* increasing agent-id order in every turn, and every turn's move list is  *)
(* in strictly increasing agent-id order.                                  *)
(* antPositions is built route by route, so the agents of route 1 all come *)
(* before the agents of route 2 whatever their ids.                        *)
(***************************************************************************)
C11_AgentIdOrder ==
    prog = "part000" =>
        /\ \A i, j \in DOMAIN antPositions :
               i < j => antPositions[i].ant < antPositions[j].ant
        /\ \A t \in DOMAIN out :
               \A i, j \in DOMAIN out[t] : i < j => out[t][i].ant < out[t][j].ant

\* b is a link of the declared room a.
Adjacent(f, a, b) == a \in DOMAIN f.Rooms /\ b \in Range(Links(f, a))

\* The simple routes of f to end that extend the simple path p.
RECURSIVE SimpleRoutesFrom(_, _)
SimpleRoutesFrom(f, p) ==
    IF Last(p) = f.End THEN {p}
    ELSE UNION {SimpleRoutesFrom(f, Append(p, n)) :
                   n \in {m \in DOMAIN f.Rooms : Adjacent(f, Last(p), m) /\ m \notin Range(p)}}

\* The simple routes of f that begin [start, hop] and end at end.
SimpleRoutesVia(f, hop) ==
    IF hop = f.Start \/ ~Adjacent(f, f.Start, hop) THEN {}
    ELSE SimpleRoutesFrom(f, <<f.Start, hop>>)

\* The call of the search has returned a route.
ReturnedRoute == call.returned /\ call.ret # Nil /\ call.ret # Panic

(***************************************************************************)
(* C13.  bfsShortestPath(f, firstHop, blocked) returns a route only if no  *)
(* room of the route other than start and end is blocked, the first hop    *)
(* included; and when every simple route start -> firstHop -> ... -> end   *)
(* holds a blocked room it returns nil.                                    *)
(* The search marks its first hop visited without looking it up in the     *)
(* blocked set.                                                            *)
(***************************************************************************)
C13_BlockedRoomsAvoided ==
    call.returned =>
        /\ ReturnedRoute => Intermediate(call.ret) \cap call.blockedRooms = {}
        /\ (\A p \in SimpleRoutesVia(call.f, call.startNeighbor) :
                Intermediate(p) \cap call.blockedRooms # {})
           => call.ret = Nil

\* The simple routes the search may return: the rooms after the first hop
\* are not blocked.
OpenRoutesVia(f, hop, blocked) ==
    {p \in SimpleRoutesVia(f, hop) : \A i \in 3..Len(p) : p[i] \notin blocked}

(***************************************************************************)
(* C14.  When bfsShortestPath(f, firstHop, blocked) returns a route, its   *)
(* edge count is the least among the simple routes that begin              *)
(* [start, firstHop], end at end and have no blocked room after the first  *)
(* hop; and it returns nil exactly when there is no such route.            *)
(* With the tunnel start-start start is its own first hop: no simple route *)
(* begins [start, start], and the search returns [start, start, end].      *)
(***************************************************************************)
C14_ShortestRoute ==
    call.returned =>
        LET open == OpenRoutesVia(call.f, call.startNeighbor, call.blockedRooms) IN
        /\ ReturnedRoute =>
              /\ open # {}
              /\ \A p \in open : EdgeCount(call.ret) <= EdgeCount(p)
        /\ (call.ret = Nil) <=> (open = {})

\* The names of s whose degree in f is d, d + 1, ..., top, by ascending
\* degree and, within a degree, in the order they have in s.
RECURSIVE ByDegreeFrom(_, _, _, _)
ByDegreeFrom(f, s, d, top) ==
    IF d > top THEN <<>>
    ELSE SelectSeq(s, LAMBDA n : Len(Links(f, n)) = d) \o ByDegreeFrom(f, s, d + 1, top)

StableByDegree(f, s) ==
    IF s = <<>> THEN <<>>
    ELSE ByDegreeFrom(f, s, 0, MaxSeq([i \in DOMAIN s |-> Len(Links(f, s[i]))]))

(***************************************************************************)
(* C15.  findNonOverlappingPaths processes the neighbors of start in       *)
(* ascending order of degree, and neighbors of equal degree in the order   *)
(* their tunnels to start were declared.                                   *)
(* The two loops exchange neighbors[i] with a later, strictly smaller      *)
(* neighbors[j]: the exchange carries neighbors[i] behind its equals.      *)
(* (A degree is the length of a declared room's link list.)                *)
(***************************************************************************)
C15_NeighborsStableByDegree ==
    (/\ call.returned /\ ~SortDereferencesNil(call.f)
     /\ Range(Links(call.f, call.f.Start)) \subseteq DOMAIN call.f.Rooms) =>
        call.ret = StableByDegree(call.f, Links(call.f, call.f.Start))

\* findNonOverlappingPaths has returned its route list to main.
NonOverlapFound == pc = "chooseFinal" \/ FinalChosen

\* The neighbors of start that are the first hop of no accepted route.
SkippedNeighbors ==
    {n \in Range(Links(farm, farm.Start)) :
        \A i \in DOMAIN nonOverlapPaths : nonOverlapPaths[i][2] # n}

\* The intermediate rooms of the accepted routes.
AcceptedRooms == UNION {Intermediate(nonOverlapPaths[i]) : i \in DOMAIN nonOverlapPaths}

(***************************************************************************)
(* C16.  After findNonOverlappingPaths has returned, no neighbor of start  *)
(* that is not the first hop of an accepted route has a simple route       *)
(* start -> n -> ... -> end whose rooms after n avoid the intermediate     *)
(* rooms of the accepted routes.                                           *)
(***************************************************************************)
C16_LocallyMaximal ==
    NonOverlapFound =>
        \A n \in SkippedNeighbors : OpenRoutesVia(farm, n, AcceptedRooms) = {}

\* A neighbor of start was skipped although it has a simple route to end:
\* the route runs through a room an accepted route had blocked.
C16_Witness ==
    /\ pc = "chooseFinal"
    /\ Len(nonOverlapPaths) >= 1
    /\ \E n \in SkippedNeighbors : SimpleRoutesVia(farm, n) # {}

\* Both allocators have returned.
BothAllocated == call.main # <<>> /\ call.part # <<>>

\* The route the greedy step gives agent a when routeOf[b] is the route of
\* every agent b < a: the lowest index among the routes of least
\* (edge count + agents assigned before a).
GreedyRoute(paths, routeOf, a) ==
    LET before(i) == Cardinality({b \in 1..(a - 1) : routeOf[b] = i})
        score(i) == EdgeCount(paths[i]) + before(i)
        least == {i \in DOMAIN paths : \A j \in DOMAIN paths : score(i) <= score(j)}
    IN  CHOOSE i \in least : \A j \in least : i <= j

(***************************************************************************)
(* C17.  Both allocators take the greedy step: agent k, for k = 1..N in    *)
(* order, goes to the lowest-index route among those of least (edge count  *)
(* + agents assigned before k); so for every route list and every N the    *)
(* two give every agent the same route.                                    *)
(***************************************************************************)
C17_AllocatorsAgree ==
    BothAllocated =>
        LET antPathsMain == call.main[1].antPaths
            distribution == call.part[1]
        IN  /\ \A a \in 1..call.ants :
                  /\ antPathsMain[a] = GreedyRoute(call.paths, antPathsMain, a)
                  /\ \A i \in DOMAIN distribution :
                         (a \in Range(distribution[i])) <=> (antPathsMain[a] = i)
            /\ \A i \in DOMAIN distribution :
                  /\ Len(distribution[i]) = call.main[1].antsAssigned[i]
                  /\ \A k \in DOMAIN distribution[i] : distribution[i][k] \in 1..call.ants

\* Both allocators have returned for a list of three routes, two of them of
\* the same length, and enough agents for every route to be used.
C17_Witness ==
    /\ BothAllocated
    /\ Len(call.paths) = 3
    /\ EdgeCount(call.paths[2]) = EdgeCount(call.paths[3])
    /\ \A i \in DOMAIN call.paths : call.main[1].antsAssigned[i] >= 1

(***************************************************************************)
(* C18.  The "Theoretical minimum" of src/main.go, the integer quotient    *)
(* (ants + sum of route lengths - 1) / routeCount, equals                  *)
(* ceil((ants + sum of route lengths - routeCount) / routeCount) for every *)
(* ants >= 1 and every non-empty list of routes of length >= 1.            *)
(***************************************************************************)
C18_TheoreticalIsCeiling ==
    call.stat # <<>> => call.stat[1] = LowerBound(call.ants, call.paths)

\* The statistics have been computed for several routes where the division
\* leaves a remainder, so that the ceiling rounds up.
C18_Witness ==
    /\ call.stat # <<>>
    /\ Len(call.paths) >= 2
    /\ (call.ants + SumSeq(pathLengths(call.paths)) - Len(call.paths)) % Len(call.paths) # 0
    /\ call.stat[1] >= 2

(***************************************************************************)
(* C19.  Every farm parseInput of src/main.go returns without an error has *)
(* only names of declared rooms in its link lists, and path finding never  *)
(* dereferences an undeclared neighbor.                                    *)
(* For a tunnel a-b the loader appends b to a's links when a is declared,  *)
(* whether or not b is.                                                    *)
(***************************************************************************)
C19_LinksNameDeclaredRooms ==
    (prog = "main" /\ farm # NoFarm) =>
        /\ \A r \in DOMAIN farm.Rooms : Range(Links(farm, r)) \subseteq DOMAIN farm.Rooms
        /\ outcome # "panic"

\* No two agents of src/main.go are in the same room other than start and end.
OneAgentPerIntermediateRoom ==
    (prog = "main" /\ Simulating) =>
        \A a, b \in 1..farm.Ants :
            (a # b /\ RoomOfMain(a) = RoomOfMain(b)) =>
                RoomOfMain(a) \in {farm.Start, farm.End}

\* In a step of the turn loop every agent that has left start and is not
\* at end advances by one index.
LeftStartAdvances ==
    (prog = "main" /\ pc = "turn") =>
        \A a \in DOMAIN positions :
            (positions[a] >= 1 /\ positions[a] < EdgeCount(finalPaths[antPaths[a]])) =>
                positions'[a] = positions[a] + 1

(***************************************************************************)
(* C20.  On any list of simple routes from start to end with pairwise      *)
(* disjoint intermediate rooms, with the allocation the allocator made,    *)
(* simulateAnts of src/main.go has at most one agent in every intermediate *)
(* room at the end of every turn, and an agent that has left start         *)
(* advances by one index in every later turn until it is at end.           *)
(***************************************************************************)
C20_SchedulerOnDisjointRoutes ==
    [][OneAgentPerIntermediateRoom' /\ LeftStartAdvances]_vars

\* In the turn loop over two routes or more, an agent still waits at start
\* after two turns while another one is in the second room of its route.
C20_Witness ==
    /\ prog = "main" /\ pc = "turn" /\ round >= 3
    /\ Len(finalPaths) >= 2
    /\ \E a, b \in DOMAIN positions :
          /\ positions[a] = 0
          /\ positions[b] = 2 /\ EdgeCount(finalPaths[antPaths[b]]) >= 3

(***************************************************************************)
(* C21.  On a list of pairwise distinct simple routes with pairwise        *)
(* disjoint intermediate rooms, with the allocation distributeAnts made,   *)
(* the schedule simulateAnts of part_000 returns has exactly as many turn  *)
(* lines as the largest (edge count + agents - 1) over the routes that     *)
(* received an agent.                                                      *)
(***************************************************************************)
C21_ScheduleCostIsFinishTime ==
    (prog = "part000" /\ Finished) =>
        Len(out) = FinishLoad(finalPaths, Counts) - 1

\* A finished schedule of part_000 over three routes of different lengths,
\* all used, where agents had to queue at start.
C21_Witness ==
    /\ prog = "part000" /\ Finished
    /\ Len(finalPaths) = 3
    /\ UsedRoutes = DOMAIN finalPaths
    /\ EdgeCount(finalPaths[1]) > EdgeCount(finalPaths[2])
    /\ \E i \in DOMAIN finalPaths : Counts[i] >= 2
    /\ Len(out) > MaxSeq(pathLengths(finalPaths))

\* The declared rooms reachable from the rooms of S over the links of f.
RECURSIVE ReachableFrom(_, _)
ReachableFrom(f, S) ==
    LET T == S \cup {m \in DOMAIN f.Rooms : \E r \in S : Adjacent(f, r, m)}
    IN  IF T = S THEN S ELSE ReachableFrom(f, T)

\* end is reachable from start in the graph of f.
EndReachable(f) == f.End \in ReachableFrom(f, {f.Start})

(***************************************************************************)
(* C22.  main selects a non-empty route set and runs the simulation if and *)
(* only if end is reachable from start: when end is reachable at least one *)
(* route is selected and the simulation runs; when it is not, the program  *)
(* reports "No valid paths found!" and prints no move.                     *)
(***************************************************************************)
C22_RoutesIffReachable ==
    (pc = "done" /\ outcome # "error") =>
        IF EndReachable(farm)
        THEN outcome = "finished" /\ Len(finalPaths) >= 1
        ELSE outcome = "nopaths" /\ finalPaths = Nil /\ out = <<>>

=============================================================================
